---- MODULE Spec2Model ----
(***************************************************************************)
(* Model of the meal planner: MealOptimizer (src/src/meal_optimizer.py)    *)
(* and run_optimization (src/app.py).                                      *)
(*                                                                         *)
(* The optimizer object holds the catalog (meals), the profile registry    *)
(* (nutritional_profiles) and the schedule configuration (days_of_week,    *)
(* meals_per_day).  Callers invoke solve directly, or run_optimization,    *)
(* which inserts a 'custom' profile into the registry, calls solve and     *)
(* deletes the profile again.  The MILP backend called by problem.solve()  *)
(* is modelled by its contract: it answers "Optimal" with one of the       *)
(* optimal assignments, "Infeasible" when there is none, or "Not Solved"   *)
(* when it stops without a verdict.                                        *)
(***************************************************************************)
EXTENDS Integers, Sequences, FiniteSets, TLC

VARIABLES
    meals,                 \* self.meals: the catalog, a sequence of meal records
    nutritional_profiles,  \* self.nutritional_profiles: name -> profile
    days_of_week,          \* self.days_of_week: sequence of day names
    meals_per_day,         \* self.meals_per_day: slots per day
    call,                  \* per caller: the invocation and its arguments
    pc,                    \* per caller: position in solve / run_optimization
    profile,               \* per caller: solve's local `profile` (line 167)
    problem,               \* per caller: the LpProblem built so far
    num_vars,              \* per caller: decision variables created (line 183)
    solver_calls,          \* per caller: configurations problem.solve() ran with
    status,                \* per caller: last LpStatus[problem.status]
    x,                     \* per caller: varValue of every x[i, j]
    outcome,               \* per caller: what the invocation returned or raised
    registry_before        \* per caller: the registry when the invocation began

vars == <<meals, nutritional_profiles, days_of_week, meals_per_day, call, pc,
          profile, problem, num_vars, solver_calls, status, x, outcome,
          registry_before>>

optimizer == <<meals, days_of_week, meals_per_day>>

-----------------------------------------------------------------------------
(* Bounds of the model *)

\* Largest per-meal repetition cap (max_meals_per_meal) a caller passes.
MaxCap == 7

\* Largest number of decision variables (num_meals * total_meal_slots) of a
\* modelled optimizer.
MaxVars == 14

\* Largest slots-per-day value of a modelled configuration.
MaxSlotsPerDay == 2

-----------------------------------------------------------------------------
(* Values *)

None == "None"

\* float('inf'): larger than every nutrient total of the modelled catalogs.
Inf == 1000000

Procs == {1, 2}

\* The hard-wired weekly meal count of solve.
total_meals == 7

\* The hard-wired right-hand side of the total-count constraint.
total_count_rhs == 7

\* user_rating used when a meal has none.
default_user_rating == 5

macro_nutrients == <<"protein">>

micro_nutrients == <<"vitamin_a_mcg">>

all_nutrients == macro_nutrients \o micro_nutrients

nutrients_to_process == <<"calories">> \o all_nutrients

Range(s) == {s[k] : k \in 1..Len(s)}

num_meals == Len(meals)

num_days == Len(days_of_week)

total_meal_slots == num_days * meals_per_day

MealIdx == 0 .. (num_meals - 1)

SlotIdx == 0 .. (total_meal_slots - 1)

\* Python's self.meals[i], 0-based.
meal_at(i) == meals[i + 1]

-----------------------------------------------------------------------------
(* Catalog fixtures: three meals costing 2, 5 and 8; the third has no      *)
(* user_rating.                                                            *)

MealA == [title |-> "A", estimated_cost_usd |-> 2, user_rating |-> 3,
          calories |-> 4, macros |-> [protein |-> 2],
          micros |-> [vitamin_a_mcg |-> 6]]

MealB == [title |-> "B", estimated_cost_usd |-> 5, user_rating |-> 4,
          calories |-> 5, macros |-> [protein |-> 3],
          micros |-> [vitamin_a_mcg |-> 5]]

MealC == [title |-> "C", estimated_cost_usd |-> 8,
          calories |-> 6, macros |-> [protein |-> 4],
          micros |-> [vitamin_a_mcg |-> 4]]

MealPool == <<MealA, MealB, MealC>>

Catalogs == {SubSeq(MealPool, 1, n) : n \in 0..Len(MealPool)}

WeekDays == <<"Monday", "Tuesday", "Wednesday", "Thursday", "Friday",
              "Saturday", "Sunday">>

\* A configuration of more days than a week.
EightDays == WeekDays \o <<"Monday-2">>

DayLists == {SubSeq(WeekDays, 1, n) : n \in {2, 7}} \cup {EightDays}

-----------------------------------------------------------------------------
(* Pure helpers of MealOptimizer *)

\* _get_nutrient_value: the value of a catalog nutrient key in a meal.
get_nutrient_value(meal, nutrient) ==
    IF nutrient \in {"protein", "carbs", "fat"} THEN meal.macros[nutrient]
    ELSE IF nutrient \in Range(micro_nutrients) THEN meal.micros[nutrient]
    ELSE IF nutrient = "calories" THEN meal.calories
    ELSE "ValueError"

\* The lookup table of _map_profile_nutrient: profile-facing name -> catalog key.
mapping == [vitaminA |-> "vitamin_a_mcg"]

\* _map_profile_nutrient: mapping.get(profile_nutrient, profile_nutrient).
map_profile_nutrient(profile_nutrient) ==
    IF profile_nutrient \in DOMAIN mapping THEN mapping[profile_nutrient]
    ELSE profile_nutrient

-----------------------------------------------------------------------------
(* The binary program built by solve *)

\* The keys (i, j) of x are kept as row i + 1 and column j + 1 of a matrix.
Rows == 1..num_meals

Cols == 1..total_meal_slots

\* m[i, j] of a matrix keyed by the 0-based pair.
At(m, i, j) == m[i + 1][j + 1]

\* lpSum of coef[i, j] * xx[i, j] over the variables in creation order
\* (i outer, j inner), taken up to the k-th variable.
RECURSIVE LinSum(_, _, _)
LinSum(coef, xx, k) ==
    IF k = 0 THEN 0
    ELSE LET i == (k - 1) \div total_meal_slots
             j == (k - 1) % total_meal_slots
         IN  LinSum(coef, xx, k - 1) + At(coef, i, j) * At(xx, i, j)

\* value(expr) of a linear expression under the assignment xx.
LinValue(coef, xx) == LinSum(coef, xx, num_meals * total_meal_slots)

\* Lines 170-175: the LpProblem of the objective kind.
NewProblem(objective) ==
    [sense |-> IF objective = "minimize_cost" THEN "LpMinimize" ELSE "LpMaximize",
     objective |-> <<>>,
     constraints |-> <<>>]

\* Lines 196: self.meals[i].get("user_rating", 5).
user_rating(meal) ==
    IF "user_rating" \in DOMAIN meal THEN meal.user_rating
    ELSE default_user_rating

\* Lines 187-199: the objective's coefficient of x[i, j].
ObjectiveExpr(objective) ==
    [r \in Rows |-> [c \in Cols |->
        IF objective = "minimize_cost" THEN meal_at(r - 1).estimated_cost_usd
        ELSE IF objective = "maximize_rating" THEN user_rating(meal_at(r - 1))
        ELSE 0]]

\* Lines 201-203: meal i is selected at most max_meals_per_meal times.
CapConstraint(i, max_meals_per_meal) ==
    [coef |-> [r \in Rows |-> [c \in Cols |-> IF r - 1 = i THEN 1 ELSE 0]],
     sense |-> "<=", rhs |-> max_meals_per_meal]

\* Bug variant: the per-meal cap is never added to the problem.
CapConstraintsDropped(max_meals_per_meal) == <<>>

CapConstraints(max_meals_per_meal) ==
    [k \in 1..num_meals |-> CapConstraint(k - 1, max_meals_per_meal)]

\* Lines 205-213: exactly one meal over the slots of day day_idx.
DayConstraint(day_idx) ==
    [coef |-> [r \in Rows |-> [c \in Cols |->
                  IF \E meal_slot \in 0..(meals_per_day - 1) :
                        c - 1 = day_idx * meals_per_day + meal_slot
                  THEN 1 ELSE 0]],
     sense |-> "==", rhs |-> 1]

DayConstraints == [k \in 1..num_days |-> DayConstraint(k - 1)]

\* Lines 239-243 and 251-255: nutrient_value of meal i on every x[i, j].
NutrientExpr(nutrient) ==
    [r \in Rows |-> [c \in Cols |-> get_nutrient_value(meal_at(r - 1), nutrient)]]

\* Lines 238 and 250: which of the two bounds of a nutrient are added.
HasLowerBound(min_val) == min_val > 0

HasUpperBound(max_val) == max_val < Inf

\* Lines 224-226: the profile key solve looks a catalog nutrient up under.
ProfileKeyOf(nutrient) == map_profile_nutrient(nutrient)

\* Lines 223-259: the constraints of one catalog nutrient.
NutrientConstraints(prof, nutrient) ==
    LET profile_nutrient == ProfileKeyOf(nutrient) IN
    IF profile_nutrient \in DOMAIN prof
    THEN LET min_val == prof[profile_nutrient].min
             max_val == prof[profile_nutrient].max
         IN  (IF HasLowerBound(min_val)
              THEN <<[coef |-> NutrientExpr(nutrient), sense |-> ">=",
                      rhs |-> min_val * total_meals]>>
              ELSE <<>>)
             \o
             (IF HasUpperBound(max_val)
              THEN <<[coef |-> NutrientExpr(nutrient), sense |-> "<=",
                      rhs |-> max_val * total_meals]>>
              ELSE <<>>)
    ELSE <<>>

RECURSIVE AllNutrientConstraints(_, _)
AllNutrientConstraints(prof, k) ==
    IF k = 0 THEN <<>>
    ELSE AllNutrientConstraints(prof, k - 1)
            \o NutrientConstraints(prof, nutrients_to_process[k])

\* Variant: the total number of selections follows the number of days.
TotalConstraintPerDay ==
    [coef |-> [r \in Rows |-> [c \in Cols |-> 1]], sense |-> "==", rhs |-> num_days]

\* Lines 261-264: the total number of selections is exactly 7.
TotalConstraint ==
    [coef |-> [r \in Rows |-> [c \in Cols |-> 1]], sense |-> "==", rhs |-> total_count_rhs]

\* Lines 187-264: objective and constraints, in the order solve adds them.
BuildProblem(prob, prof, max_meals_per_meal, objective) ==
    [prob EXCEPT
        !.objective = ObjectiveExpr(objective),
        !.constraints = CapConstraints(max_meals_per_meal)
                            \o DayConstraints
                            \o AllNutrientConstraints(prof, Len(nutrients_to_process))
                            \o <<TotalConstraint>>]

-----------------------------------------------------------------------------
(* The MILP backend behind problem.solve() *)

Holds(c, xx) ==
    LET lhs == LinValue(c.coef, xx) IN
    CASE c.sense = "<=" -> lhs <= c.rhs
      [] c.sense = ">=" -> lhs >= c.rhs
      [] c.sense = "==" -> lhs = c.rhs

\* The binary matrix that selects, on every day d, the pair pick[d] = <<meal, slot>>.
MatrixOf(pick) ==
    [r \in Rows |-> [c \in Cols |->
        IF pick[(c - 1) \div meals_per_day] = <<r - 1, (c - 1) % meals_per_day>>
        THEN 1 ELSE 0]]

\* The binary matrices with exactly one 1 within every day's slot range: the
\* search space left by the day constraints.
DayAssignments ==
    {MatrixOf(pick) :
        pick \in [0..(num_days - 1) -> MealIdx \X (0..(meals_per_day - 1))]}

Feasible(prob) ==
    {xx \in DayAssignments :
        \A k \in 1..Len(prob.constraints) : Holds(prob.constraints[k], xx)}

ObjectiveValue(prob, xx) == LinValue(prob.objective, xx)

Better(prob, a, b) ==
    IF prob.sense = "LpMinimize" THEN a <= b ELSE a >= b

\* The optimal assignments of the problem; empty when it is infeasible.
OptimalAssignments(prob) ==
    LET feas == Feasible(prob)
        vals == {ObjectiveValue(prob, xx) : xx \in feas}
    IN  IF feas = {} THEN {}
        ELSE LET best == CHOOSE a \in vals : \A b \in vals : Better(prob, a, b)
             IN  {xx \in feas : ObjectiveValue(prob, xx) = best}

-----------------------------------------------------------------------------
(* Solution extraction *)

\* varValue of a variable the backend has not set.
unset == -1

\* Line 325: varValue is not None and varValue > 0.5.
IsSelected(xx, i, j) == At(xx, i, j) # unset /\ 2 * At(xx, i, j) > 1

\* Bug variant: the day is taken from the slot index modulo the number of days.
MealInfoDayByModulo(i, j) ==
    LET day_idx == j % num_days
        meal_idx == j % meals_per_day
    IN  [meal |-> meal_at(i),
         day |-> days_of_week[day_idx + 1],
         meal_slot |-> meal_idx + 1,
         cost |-> meal_at(i).estimated_cost_usd]

\* Lines 326-335: the selection entry of x[i, j].
MealInfo(i, j) ==
    LET day_idx == j \div meals_per_day
        meal_idx == j % meals_per_day
    IN  [meal |-> meal_at(i),
         day |-> days_of_week[day_idx + 1],
         meal_slot |-> meal_idx + 1,
         cost |-> meal_at(i).estimated_cost_usd]

\* Bug variant: the loops are nested the other way, slot j outer, meal i inner.
RECURSIVE SelectedMealsSlotMajor(_, _)
SelectedMealsSlotMajor(xx, k) ==
    IF k = 0 THEN <<>>
    ELSE LET j == (k - 1) \div num_meals
             i == (k - 1) % num_meals
             before == SelectedMealsSlotMajor(xx, k - 1)
         IN  IF IsSelected(xx, i, j) THEN Append(before, MealInfo(i, j))
             ELSE before

\* Lines 322-338: selected_meals after the first k variables, i outer, j inner.
RECURSIVE SelectedMeals(_, _)
SelectedMeals(xx, k) ==
    IF k = 0 THEN <<>>
    ELSE LET i == (k - 1) \div total_meal_slots
             j == (k - 1) % total_meal_slots
             before == SelectedMeals(xx, k - 1)
         IN  IF IsSelected(xx, i, j) THEN Append(before, MealInfo(i, j))
             ELSE before

\* Lines 316-320 and 338: every day's entries, in the order they were selected.
MealSchedule(selected_meals) ==
    [day \in Range(days_of_week) |->
        SelectSeq(selected_meals, LAMBDA info : info.day = day)]

RECURSIVE SumNutrient(_, _, _)
SumNutrient(selected_meals, nutrient, k) ==
    IF k = 0 THEN 0
    ELSE SumNutrient(selected_meals, nutrient, k - 1)
            + get_nutrient_value(selected_meals[k].meal, nutrient)

RECURSIVE SumCost(_, _)
SumCost(selected_meals, k) ==
    IF k = 0 THEN 0
    ELSE SumCost(selected_meals, k - 1) + selected_meals[k].cost

\* total / num_meals, kept as the exact quotient of the two.
Quotient(total, n) == [num |-> total, den |-> n]

\* Bug variant: the average is taken over the days of the configuration.
calculate_nutritional_summary_per_day(selected_meals) ==
    IF selected_meals = <<>> THEN [n \in {} |-> 0]
    ELSE LET n_meals == Len(selected_meals) IN
         [nutrient \in Range(nutrients_to_process) |->
            LET total == SumNutrient(selected_meals, nutrient, n_meals)
            IN  [total |-> total, average |-> Quotient(total, num_days)]]

\* _calculate_nutritional_summary.
calculate_nutritional_summary(selected_meals) ==
    IF selected_meals = <<>> THEN [n \in {} |-> 0]
    ELSE LET n_meals == Len(selected_meals) IN
         [nutrient \in Range(nutrients_to_process) |->
            LET total == SumNutrient(selected_meals, nutrient, n_meals)
            IN  [total |-> total, average |-> Quotient(total, n_meals)]]

\* _extract_solution.
extract_solution(xx, profile_name) ==
    LET selected_meals == SelectedMeals(xx, num_meals * total_meal_slots) IN
    [profile_used |-> profile_name,
     selected_meals |-> selected_meals,
     meal_schedule |-> MealSchedule(selected_meals),
     nutritional_summary |-> calculate_nutritional_summary(selected_meals),
     total_cost |-> SumCost(selected_meals, Len(selected_meals)),
     num_meals_selected |-> Len(selected_meals)]

\* Lines 278-282 and 292-295: the solution with its status and objective value.
Solution(prob, xx, profile_name, reported) ==
    [kind |-> "return",
     value |-> [status |-> reported,
                objective_value |-> ObjectiveValue(prob, xx)]
                    @@ extract_solution(xx, profile_name)]

\* Lines 297-302: the result when no solution was found.
NoSolution(st) ==
    [kind |-> "return",
     value |-> [status |-> "INFEASIBLE", message |-> st,
                objective_value |-> None]]

Raise(error, message) == [kind |-> "raise", error |-> error, message |-> message]

NoOutcome == [kind |-> "none"]

-----------------------------------------------------------------------------
(* run_optimization's profile *)

\* requirements.get(key, default).
Get(requirements, key, default) ==
    IF key \in DOMAIN requirements THEN requirements[key] ELSE default

\* Lines 104-157 of app.py: the custom profile built from the requirements.
CustomProfile(requirements) ==
    [calories |-> [min |-> Get(requirements, "minCalories", 300),
                   max |-> Get(requirements, "maxCalories", 700)],
     protein  |-> [min |-> Get(requirements, "minProtein", 20),
                   max |-> Get(requirements, "maxProtein", 35)],
     vitaminA |-> [min |-> Get(requirements, "minVitaminA", 150),
                   max |-> Get(requirements, "maxVitaminA", 300)]]

\* registry[name] = prof.
Put(registry, name, prof) ==
    [n \in DOMAIN registry \cup {name} |-> IF n = name THEN prof ELSE registry[n]]

\* del registry[name].
Del(registry, name) == [n \in DOMAIN registry \ {name} |-> registry[n]]

-----------------------------------------------------------------------------
(* Inputs *)

BoundPairs == {[min |-> lo, max |-> hi] : lo \in {0, 5}, hi \in {4, 5, Inf}}

ProfileNames == {"calories", "vitaminA", "vitamin_a_mcg"}

\* The profiles of the registry: no bound at all, or one bounded nutrient.
Profiles ==
    {[n \in {} |-> 0]}
        \cup {[n \in {name} |-> b] : name \in ProfileNames, b \in BoundPairs}

Objectives == {"minimize_cost", "maximize_rating", "maximize_variety"}

Caps == 1..MaxCap

Idle == [kind |-> "idle"]

SolveCalls ==
    [kind : {"solve"}, profile_name : {"healthy-adult", "athlete"},
     max_meals_per_meal : Caps, objective : Objectives]

\* Requirements a front end sends: one single meal A fits, one it does not,
\* and none at all.
RequirementSets ==
    {[minCalories |-> 4, maxCalories |-> 4, minProtein |-> 0],
     [minCalories |-> 5, maxCalories |-> 6, minProtein |-> 0],
     [n \in {} |-> 0]}

\* run_optimization(optimizer, requirements, objective, meal_frequency); it
\* calls solve with profile_name='custom' (line 166 of app.py).
RunCalls ==
    [kind : {"run"}, profile_name : {"custom"}, requirements : RequirementSets,
     max_meals_per_meal : {MaxCap}, objective : Objectives]

Start(c) ==
    IF c.kind = "run" THEN "run_insert"
    ELSE IF c.kind = "solve" THEN "solve_lookup"
    ELSE IF c.kind = "extract" THEN "extract"
    ELSE "idle"

NoProblem == [sense |-> None, objective |-> <<>>, constraints |-> <<>>]

InitLocals ==
    /\ pc = [p \in Procs |-> Start(call[p])]
    /\ profile = [p \in Procs |-> None]
    /\ problem = [p \in Procs |-> NoProblem]
    /\ num_vars = [p \in Procs |-> 0]
    /\ solver_calls = [p \in Procs |-> <<>>]
    /\ status = [p \in Procs |-> None]
    /\ x = [p \in Procs |-> <<>>]
    /\ outcome = [p \in Procs |-> NoOutcome]
    /\ registry_before = [p \in Procs |-> None]

\* One caller invokes solve on a freshly constructed optimizer.
Init ==
    /\ meals \in Catalogs
    /\ days_of_week \in DayLists
    /\ meals_per_day \in 1..MaxSlotsPerDay
    /\ num_meals * total_meal_slots <= MaxVars
    /\ \E prof \in Profiles :
          nutritional_profiles = [n \in {"healthy-adult"} |-> prof]
    /\ \E c \in SolveCalls : call = [p \in Procs |-> IF p = 1 THEN c ELSE Idle]
    /\ InitLocals

\* Two callers invoke solve with identical arguments on one optimizer with
\* one slot per day.
InitTwice ==
    /\ meals \in Catalogs
    /\ days_of_week \in DayLists
    /\ meals_per_day = 1
    /\ num_meals * total_meal_slots <= MaxVars
    /\ \E prof \in Profiles :
          /\ DOMAIN prof \subseteq {"calories"}
          /\ nutritional_profiles = [n \in {"healthy-adult"} |-> prof]
    /\ \E c \in SolveCalls :
          /\ c.max_meals_per_meal = MaxCap
          /\ call = [p \in Procs |-> c]
    /\ InitLocals

\* The varValues a caller can hand to _extract_solution: every variable 0 or 1,
\* or no variable set at all.
VarValues ==
    [Rows -> [Cols -> {0, 1}]] \cup {[r \in Rows |-> [c \in Cols |-> unset]]}

\* _extract_solution(x, profile_name) is called on arbitrary variable values.
InitExtract ==
    /\ meals \in Catalogs
    /\ days_of_week \in DayLists
    /\ meals_per_day \in 1..MaxSlotsPerDay
    /\ num_meals * total_meal_slots <= MaxVars
    /\ nutritional_profiles = [n \in {"healthy-adult"} |-> [m \in {} |-> 0]]
    /\ call = [p \in Procs |->
                IF p = 1 THEN [kind |-> "extract", profile_name |-> "healthy-adult"]
                ELSE Idle]
    /\ pc = [p \in Procs |-> Start(call[p])]
    /\ profile = [p \in Procs |-> None]
    /\ problem = [p \in Procs |-> NoProblem]
    /\ num_vars = [p \in Procs |-> 0]
    /\ solver_calls = [p \in Procs |-> <<>>]
    /\ status = [p \in Procs |-> None]
    /\ \E xx \in VarValues : x = [p \in Procs |-> IF p = 1 THEN xx ELSE <<>>]
    /\ outcome = [p \in Procs |-> NoOutcome]
    /\ registry_before = [p \in Procs |-> None]

\* One or two callers invoke run_optimization on one shared optimizer, whose
\* registry may already hold a profile named 'custom'.
InitRun ==
    /\ meals = <<MealA>>
    /\ days_of_week = WeekDays
    /\ meals_per_day = 1
    /\ \E prof \in Profiles :
          /\ "calories" \in DOMAIN prof
          /\ prof["calories"] = [min |-> 0, max |-> 5]
          /\ nutritional_profiles \in
                {[n \in {"healthy-adult"} |-> prof],
                 [n \in {"healthy-adult", "custom"} |-> prof]}
    /\ \E c1 \in RunCalls, c2 \in RunCalls \cup {Idle} :
          call = [p \in Procs |-> IF p = 1 THEN c1 ELSE c2]
    /\ InitLocals

-----------------------------------------------------------------------------
(* Steps of solve *)

Finish(p, result) ==
    /\ outcome' = [outcome EXCEPT ![p] = result]
    /\ pc' = [pc EXCEPT ![p] =
                IF result.kind = "raise" THEN "raised"
                ELSE IF call[p].kind = "run" THEN "run_delete"
                ELSE "done"]

\* The registry as the invocation of p found it, noted at its first step.
NoteRegistry(p) ==
    registry_before' = [registry_before EXCEPT ![p] = nutritional_profiles]

\* Lines 164-167: look the profile up in the registry.
SolveLookup(p) ==
    /\ pc[p] = "solve_lookup"
    /\ IF call[p].profile_name \notin DOMAIN nutritional_profiles
       THEN /\ Finish(p, Raise("ValueError", "Unknown profile"))
            /\ UNCHANGED profile
       ELSE /\ profile' = [profile EXCEPT
                            ![p] = nutritional_profiles[call[p].profile_name]]
            /\ pc' = [pc EXCEPT ![p] = "solve_create"]
            /\ UNCHANGED outcome
    /\ IF call[p].kind = "solve" THEN NoteRegistry(p)
       ELSE UNCHANGED registry_before
    /\ UNCHANGED <<optimizer, nutritional_profiles, call, problem, num_vars,
                   solver_calls, status, x>>

\* Bug variant: every objective kind falls through without the else branch.
ValidObjectiveAny(objective) == TRUE

\* Lines 170-175: the objective kinds solve does not reject.
ValidObjective(objective) == objective \in {"minimize_cost", "maximize_rating"}

\* Lines 169-175: create the problem of the objective kind.
SolveCreate(p) ==
    /\ pc[p] = "solve_create"
    /\ IF ValidObjective(call[p].objective)
       THEN /\ problem' = [problem EXCEPT ![p] = NewProblem(call[p].objective)]
            /\ pc' = [pc EXCEPT ![p] = "solve_build"]
            /\ UNCHANGED outcome
       ELSE /\ Finish(p, Raise("ValueError", "Unknown objective"))
            /\ UNCHANGED problem
    /\ UNCHANGED <<optimizer, nutritional_profiles, call, profile, num_vars,
                   solver_calls, status, x, registry_before>>

\* Lines 177-268: create the variables, the objective and the constraints.
SolveBuild(p) ==
    /\ pc[p] = "solve_build"
    /\ num_vars' = [num_vars EXCEPT ![p] = num_meals * total_meal_slots]
    /\ x' = [x EXCEPT ![p] = [r \in Rows |-> [c \in Cols |-> unset]]]
    /\ problem' = [problem EXCEPT
                    ![p] = BuildProblem(problem[p], profile[p],
                                        call[p].max_meals_per_meal,
                                        call[p].objective)]
    /\ pc' = [pc EXCEPT ![p] = "solve_first"]
    /\ UNCHANGED <<optimizer, nutritional_profiles, call, profile,
                   solver_calls, status, outcome, registry_before>>

\* What one run of the backend can answer: <<status, varValues>>.
SolverAnswers(prob, xx) ==
    LET opt == OptimalAssignments(prob) IN
    {<<"Not Solved", xx>>}
        \cup (IF opt = {} THEN {<<"Infeasible", xx>>}
              ELSE {<<"Optimal", o>> : o \in opt})

\* The configuration problem.solve() runs with at line 271.
FirstConfig == "default"

\* The configuration problem.solve() runs with at line 288.
RetryConfig == "default"

\* The status reported for an Optimal first run (line 279).
FirstReport == "OPTIMAL"

\* The status reported for an Optimal retry (line 293).
RetryReport == "FEASIBLE"

\* Lines 270-284 and 297-302: first solver run and its branches.
SolveFirst(p) ==
    /\ pc[p] = "solve_first"
    /\ \E a \in SolverAnswers(problem[p], x[p]) :
          /\ status' = [status EXCEPT ![p] = a[1]]
          /\ x' = [x EXCEPT ![p] = a[2]]
          /\ IF a[1] = "Optimal"
             THEN Finish(p, Solution(problem[p], a[2], call[p].profile_name,
                                     FirstReport))
             ELSE IF a[1] = "Not Solved"
             THEN /\ pc' = [pc EXCEPT ![p] = "solve_retry"]
                  /\ UNCHANGED outcome
             ELSE Finish(p, NoSolution(a[1]))
    /\ solver_calls' = [solver_calls EXCEPT ![p] = Append(@, FirstConfig)]
    /\ UNCHANGED <<optimizer, nutritional_profiles, call, profile, problem,
                   num_vars, registry_before>>

\* Lines 284-302: the second solver run and its branches.
SolveRetry(p) ==
    /\ pc[p] = "solve_retry"
    /\ \E a \in SolverAnswers(problem[p], x[p]) :
          /\ status' = [status EXCEPT ![p] = a[1]]
          /\ x' = [x EXCEPT ![p] = a[2]]
          /\ IF a[1] = "Optimal"
             THEN Finish(p, Solution(problem[p], a[2], call[p].profile_name,
                                     RetryReport))
             ELSE Finish(p, NoSolution(a[1]))
    /\ solver_calls' = [solver_calls EXCEPT ![p] = Append(@, RetryConfig)]
    /\ UNCHANGED <<optimizer, nutritional_profiles, call, profile, problem,
                   num_vars, registry_before>>

-----------------------------------------------------------------------------
(* Steps of run_optimization *)

\* Lines 104-163 of app.py: build the custom profile and insert it.
RunInsert(p) ==
    /\ pc[p] = "run_insert"
    /\ NoteRegistry(p)
    /\ nutritional_profiles' =
          Put(nutritional_profiles, "custom", CustomProfile(call[p].requirements))
    /\ pc' = [pc EXCEPT ![p] = "solve_lookup"]
    /\ UNCHANGED <<optimizer, call, profile, problem, num_vars, solver_calls,
                   status, x, outcome>>

\* Lines 168-171 of app.py: delete the custom profile and return the result.
RunDelete(p) ==
    /\ pc[p] = "run_delete"
    /\ IF "custom" \in DOMAIN nutritional_profiles
       THEN /\ nutritional_profiles' = Del(nutritional_profiles, "custom")
            /\ pc' = [pc EXCEPT ![p] = "done"]
            /\ UNCHANGED outcome
       ELSE /\ outcome' = [outcome EXCEPT ![p] = Raise("KeyError", "custom")]
            /\ pc' = [pc EXCEPT ![p] = "raised"]
            /\ UNCHANGED nutritional_profiles
    /\ UNCHANGED <<optimizer, call, profile, problem, num_vars, solver_calls,
                   status, x, registry_before>>

-----------------------------------------------------------------------------
(* A direct call of _extract_solution *)

\* Lines 304-350: the extractor's result for the variable values x[p].
Extract(p) ==
    /\ pc[p] = "extract"
    /\ outcome' = [outcome EXCEPT
                    ![p] = [kind |-> "return",
                            value |-> extract_solution(x[p], call[p].profile_name)]]
    /\ pc' = [pc EXCEPT ![p] = "done"]
    /\ UNCHANGED <<optimizer, nutritional_profiles, call, profile, problem,
                   num_vars, solver_calls, status, x, registry_before>>

-----------------------------------------------------------------------------
(* Specifications *)

Next ==
    \/ \E p \in Procs : SolveLookup(p)
    \/ \E p \in Procs : SolveCreate(p)
    \/ \E p \in Procs : SolveBuild(p)
    \/ \E p \in Procs : SolveFirst(p)
    \/ \E p \in Procs : SolveRetry(p)

NextRun ==
    \/ \E p \in Procs : RunInsert(p)
    \/ \E p \in Procs : SolveLookup(p)
    \/ \E p \in Procs : SolveCreate(p)
    \/ \E p \in Procs : SolveBuild(p)
    \/ \E p \in Procs : SolveFirst(p)
    \/ \E p \in Procs : SolveRetry(p)
    \/ \E p \in Procs : RunDelete(p)

Spec == Init /\ [][Next]_vars

SpecRun == InitRun /\ [][NextRun]_vars

SpecTwice == InitTwice /\ [][Next]_vars

NextExtract == \E p \in Procs : Extract(p)

SpecExtract == InitExtract /\ [][NextExtract]_vars

-----------------------------------------------------------------------------
(* Properties *)

Returned(p) == outcome[p].kind = "return"

Raised(p) == outcome[p].kind = "raise"

\* solve returned a schedule: status OPTIMAL or FEASIBLE.
Solved(p) == Returned(p) /\ outcome[p].value.status \in {"OPTIMAL", "FEASIBLE"}

\* How often meal i occurs among the selections.
Occurrences(selected_meals, i) ==
    Cardinality({k \in 1..Len(selected_meals) :
                    selected_meals[k].meal = meal_at(i)})

\* C1: every OPTIMAL/FEASIBLE result holds exactly one selection per day of
\* the configuration (num_days selections) and no meal more often than
\* max_meals_per_meal.
C1_OnePerDayWithinCap ==
    \A p \in Procs :
        Solved(p) =>
            /\ Len(outcome[p].value.selected_meals) = num_days
            /\ outcome[p].value.num_meals_selected = num_days
            /\ \A i \in MealIdx :
                  Occurrences(outcome[p].value.selected_meals, i)
                      <= call[p].max_meals_per_meal

\* A schedule in which the cap binds: some meal is used exactly cap times,
\* fewer than there are days.
C1_Witness ==
    \E p \in Procs :
        /\ Solved(p)
        /\ call[p].max_meals_per_meal < num_days
        /\ \E i \in MealIdx :
              Occurrences(outcome[p].value.selected_meals, i)
                  = call[p].max_meals_per_meal

\* The bound pair [min, max] scaled by the number of days holds of total; a
\* side with min = 0 or max = infinity is unconstrained.
WithinBound(bound, total) ==
    /\ (bound.min # 0 => bound.min * num_days <= total)
    /\ (bound.max < Inf => total <= bound.max * num_days)

IsBounded(bound) == bound.min # 0 \/ bound.max < Inf

SummaryTotal(p, nutrient) == outcome[p].value.nutritional_summary[nutrient].total

\* C2: in every OPTIMAL/FEASIBLE result, the summary total of every bounded
\* nutrient of the profile lies within [min x D, max x D].
C2_TotalsWithinProfileBounds ==
    \A p \in Procs :
        Solved(p) =>
            \A name \in DOMAIN profile[p] :
                IsBounded(profile[p][name]) =>
                    WithinBound(profile[p][name],
                                SummaryTotal(p, map_profile_nutrient(name)))

\* C3: a bound given under a profile-facing name of the lookup table
\* constrains the total of the catalog nutrient the table maps it to.
C3_MappedNameBoundApplied ==
    \A p \in Procs :
        Solved(p) =>
            \A name \in DOMAIN mapping \cap DOMAIN profile[p] :
                WithinBound(profile[p][name], SummaryTotal(p, mapping[name]))

IsInverted(bound) == bound.min > bound.max

\* C4: a solve that ran against a profile with min > max for some nutrient
\* returns INFEASIBLE.
C4_InvertedBoundsInfeasible ==
    \A p \in Procs :
        (/\ Returned(p)
         /\ \E name \in DOMAIN profile[p] : IsInverted(profile[p][name]))
            => outcome[p].value.status = "INFEASIBLE"

\* The schedules of one meal per day in which no meal exceeds the cap.
CappedSchedules(cap) ==
    {s \in [1..num_days -> MealIdx] :
        \A i \in MealIdx : Cardinality({d \in 1..num_days : s[d] = i}) <= cap}

RECURSIVE ScheduleCost(_, _)
ScheduleCost(s, d) ==
    IF d = 0 THEN 0
    ELSE ScheduleCost(s, d - 1) + meal_at(s[d]).estimated_cost_usd

\* The least total cost over the capped schedules (of a non-empty set).
MinScheduleCost(cap) ==
    LET costs == {ScheduleCost(s, num_days) : s \in CappedSchedules(cap)}
    IN  CHOOSE c \in costs : \A d \in costs : c <= d

Unrestricted(prof) ==
    \A name \in DOMAIN prof : ~IsBounded(prof[name])

\* C5: with minimize_cost and unrestricted bounds, whenever the backend gave
\* a verdict and a one-meal-per-day schedule within the cap exists, solve
\* returns a schedule whose total_cost is the least cost of such schedules.
C5_MinimumCostSchedule ==
    \A p \in Procs :
        (/\ Returned(p)
         /\ status[p] # "Not Solved"
         /\ call[p].objective = "minimize_cost"
         /\ Unrestricted(profile[p])
         /\ CappedSchedules(call[p].max_meals_per_meal) # {})
            => /\ Solved(p)
               /\ outcome[p].value.total_cost
                      = MinScheduleCost(call[p].max_meals_per_meal)

\* C6: with an empty catalog the backend is never invoked and no INFEASIBLE
\* result is returned.
C6_EmptyCatalogRejected ==
    \A p \in Procs :
        num_meals = 0 =>
            /\ solver_calls[p] = <<>>
            /\ ~(Returned(p) /\ outcome[p].value.status = "INFEASIBLE")

\* C7: the backend runs at most twice, a second run uses a configuration
\* other than the first, and two indefinite verdicts are not reported as
\* INFEASIBLE.
C7_RetryOnceWithFallback ==
    \A p \in Procs :
        /\ Len(solver_calls[p]) <= 2
        /\ (Len(solver_calls[p]) = 2 => solver_calls[p][2] # solver_calls[p][1])
        /\ (Len(solver_calls[p]) = 2 /\ status[p] = "Not Solved" /\ Returned(p))
              => outcome[p].value.status # "INFEASIBLE"

UnknownRequest(p) ==
    /\ call[p].kind # "idle"
    /\ \/ call[p].profile_name \notin DOMAIN nutritional_profiles
       \/ call[p].objective \notin {"minimize_cost", "maximize_rating"}

\* C8: a request with an unknown profile name or objective kind creates no
\* decision variable, never invokes the backend, returns no result, and
\* ends by raising.
C8_UnknownRequestFailsFast ==
    \A p \in Procs :
        UnknownRequest(p) =>
            /\ num_vars[p] = 0
            /\ solver_calls[p] = <<>>
            /\ ~Returned(p)
            /\ pc[p] \in {"solve_lookup", "solve_create", "raised"}
            /\ (pc[p] = "raised" => Raised(p) /\ outcome[p].error = "ValueError")

\* An unknown objective kind has been rejected after the profile was found.
C8_Witness ==
    \E p \in Procs :
        /\ UnknownRequest(p)
        /\ pc[p] = "raised"
        /\ outcome[p] = Raise("ValueError", "Unknown objective")
        /\ call[p].profile_name \in DOMAIN nutritional_profiles

\* C9: once a run_optimization invocation has returned or raised, the
\* registry is what it was when the invocation began.
C9_RegistryRestored ==
    \A p \in Procs :
        (call[p].kind = "run" /\ pc[p] \in {"done", "raised"})
            => nutritional_profiles = registry_before[p]

\* C10: every run_optimization invocation solves against the profile built
\* from its own requirements and meets no unknown-profile or missing-key
\* error.
C10_OwnProfileUnderInterleaving ==
    \A p \in Procs :
        call[p].kind = "run" =>
            /\ (pc[p] \in {"solve_create", "solve_build", "solve_first",
                           "solve_retry", "run_delete", "done"}
                  => profile[p] = CustomProfile(call[p].requirements))
            /\ ~(Raised(p) /\ outcome[p].message \in {"Unknown profile", "custom"})

\* C11: two solves with identical catalog, profile, configuration, cap and
\* objective that both return a result report the same status and the same
\* objective value.
C11_SameStatusAndObjective ==
    \A p, q \in Procs :
        (Returned(p) /\ Returned(q)) =>
            /\ outcome[p].value.status = outcome[q].value.status
            /\ outcome[p].value.objective_value = outcome[q].value.objective_value

\* The selected variables of day d: those of a slot index j with
\* j div meals_per_day = d.
DaySelections(xx, d) ==
    {s \in MealIdx \X SlotIdx :
        IsSelected(xx, s[1], s[2]) /\ s[2] \div meals_per_day = d}

\* C12: in every OPTIMAL/FEASIBLE result, every day d of the configuration has
\* exactly one selected variable within its slot range, and the schedule entry
\* of d is exactly the one selection built from that variable (its meal, the day
\* d, its slot within the day), also when meals_per_day > 1.
C12_ScheduleEntryFromOwnDaySlot ==
    \A p \in Procs :
        Solved(p) =>
            \A d \in 0..(num_days - 1) :
                LET sel == DaySelections(x[p], d)
                    entries == outcome[p].value.meal_schedule[days_of_week[d + 1]]
                IN  /\ Cardinality(sel) = 1
                    /\ Len(entries) = 1
                    /\ \A s \in sel :
                          /\ entries[1].meal = meal_at(s[1])
                          /\ entries[1].day = days_of_week[d + 1]
                          /\ entries[1].meal_slot = (s[2] % meals_per_day) + 1

C12_Witness ==
    /\ Solved(1)
    /\ meals_per_day > 1
    /\ \E k \in 1..Len(outcome[1].value.selected_meals) :
          outcome[1].value.selected_meals[k].meal_slot > 1
    /\ \E k \in 1..Len(outcome[1].value.selected_meals) :
          outcome[1].value.selected_meals[k].meal_slot = 1

\* The position of a day in days_of_week, from 0.
DayIndexOf(day) == (CHOOSE d \in 1..num_days : days_of_week[d] = day) - 1

\* The slot index j a selection entry was built from.
SlotIndexOf(info) == DayIndexOf(info.day) * meals_per_day + (info.meal_slot - 1)

\* The catalog index i a selection entry was built from (the catalogs hold
\* pairwise different meals).
CatalogIndexOf(info) == CHOOSE i \in MealIdx : meal_at(i) = info.meal

C14_StatusMatchesVerdict ==
    \A p \in Procs :
        Returned(p) =>
            /\ (outcome[p].value.status = "OPTIMAL") <=> (status[p] = "Optimal")
            /\ (outcome[p].value.status = "FEASIBLE") => (status[p] # "Optimal")

\* solve has built the problem of p.
Built(p) == pc[p] \in {"solve_first", "solve_retry"} \/ Returned(p)

\* The constraints of the given sense that problem[p] holds on the total of a
\* catalog nutrient.
BoundsOn(p, nutrient, sense) ==
    {k \in 1..Len(problem[p].constraints) :
        /\ problem[p].constraints[k].sense = sense
        /\ problem[p].constraints[k].coef = NutrientExpr(nutrient)}

\* The profile without one of its nutrients.
Without(prof, name) == [n \in DOMAIN prof \ {name} |-> prof[n]]

\* C15: for every nutrient of the profile, the built problem holds a lower
\* bound min * 7 on the nutrient's total exactly when min > 0 and an upper bound
\* max * 7 exactly when max is finite; with min = 0 and max = infinity the
\* problem is the one built from the profile without that nutrient, hence of the
\* same feasible assignments and optimum.
C15_BoundsAddedWhenSet ==
    \A p \in Procs :
        Built(p) =>
            \A name \in DOMAIN profile[p] :
                LET nutrient == map_profile_nutrient(name)
                    lower == BoundsOn(p, nutrient, ">=")
                    upper == BoundsOn(p, nutrient, "<=")
                IN  /\ Cardinality(lower) = IF profile[p][name].min > 0 THEN 1 ELSE 0
                    /\ Cardinality(upper) = IF profile[p][name].max < Inf THEN 1 ELSE 0
                    /\ \A k \in lower :
                          problem[p].constraints[k].rhs = profile[p][name].min * 7
                    /\ \A k \in upper :
                          problem[p].constraints[k].rhs = profile[p][name].max * 7
                    /\ (profile[p][name].min = 0 /\ profile[p][name].max = Inf) =>
                          problem[p] =
                              BuildProblem(NewProblem(call[p].objective),
                                           Without(profile[p], name),
                                           call[p].max_meals_per_meal,
                                           call[p].objective)

\* How many variables of meal i the assignment selects.
SelectionCount(xx, i) == Cardinality({j \in SlotIdx : IsSelected(xx, i, j)})

\* The sum over the first k meals of vals[i] times the meal's selection count.
RECURSIVE CountedSum(_, _, _)
CountedSum(xx, vals, k) ==
    IF k = 0 THEN 0
    ELSE CountedSum(xx, vals, k - 1) + SelectionCount(xx, k - 1) * vals[k]

\* C16: for every assignment handed to the extractor, total_cost is the sum of
\* the selected meals' costs, and for every tracked nutrient the summary's
\* total is the nutrient's sum over the selections, a meal selected k times
\* counted k times, and the average is that total over the number of
\* selections; with no selection the summary is the empty mapping.
C16_TotalsAndAverages ==
    \A p \in Procs :
        (pc[p] = "done" /\ call[p].kind = "extract") =>
            LET v == outcome[p].value
                ones == [i \in 1..num_meals |-> 1]
                count == CountedSum(x[p], ones, num_meals)
                costs == [i \in 1..num_meals |-> meals[i].estimated_cost_usd]
            IN  /\ v.num_meals_selected = count
                /\ v.total_cost = CountedSum(x[p], costs, num_meals)
                /\ IF count = 0
                   THEN DOMAIN v.nutritional_summary = {}
                   ELSE /\ DOMAIN v.nutritional_summary = Range(nutrients_to_process)
                        /\ \A nutrient \in Range(nutrients_to_process) :
                              LET vals == [i \in 1..num_meals |->
                                            get_nutrient_value(meals[i], nutrient)]
                                  entry == v.nutritional_summary[nutrient]
                              IN  /\ entry.total = CountedSum(x[p], vals, num_meals)
                                  /\ entry.average = Quotient(entry.total, count)

\* The extractor has handled an assignment that selects one meal more than
\* once and another meal as well, on a number of selections other than the
\* number of days.
C16_Witness ==
    /\ pc[1] = "done"
    /\ call[1].kind = "extract"
    /\ \E i \in MealIdx, k \in MealIdx :
          /\ i # k
          /\ SelectionCount(x[1], i) > 1
          /\ SelectionCount(x[1], k) > 0
    /\ outcome[1].value.num_meals_selected # num_days

====
